---------------------------- MODULE Spec2Model ----------------------------
(***************************************************************************)
(* Generate-review loop of the creative pipeline                           *)
(* (creative_pipeline/review_and_compliance.py, processor.py, cli.py).     *)
(*                                                                         *)
(* The specifications Spec and LoopSpec share the loop's actions:          *)
(*   LoopSpec  generate_with_review_loop called directly, with             *)
(*             max_iterations and min_quality_score drawn from bounded     *)
(*             sets and the review capability answering with any of        *)
(*             ReviewResponses;                                            *)
(*   Spec      the run of cli.main: every product, every aspect ratio,     *)
(*             the loop called with the processor's arguments (3, 80).     *)
(***************************************************************************)
EXTENDS Integers, Sequences, FiniteSets, TLC

(***************************************************************************)
(* Bounds of the model.                                                    *)
(***************************************************************************)
\* Largest max_iterations a direct caller of the loop passes.
MaxIterBound == 3
\* Number of products of the campaign brief.
NumProducts == 2

(***************************************************************************)
(* Python values carried by the review payload.                            *)
(* A text is a sequence of tokens: a character, or (in the text of a       *)
(* response) one complete JSON value.                                      *)
(***************************************************************************)
Ch(c) == [t |-> "ch", c |-> c]

Str(s) == [i \in DOMAIN s |-> Ch(s[i])]

JsonTok(v) == [t |-> "json", value |-> v]

Whitespace == {" ", "\n"}

IsSpace(tok) == tok.t = "ch" /\ tok.c \in Whitespace

\* str.strip() with no argument: drops leading and trailing whitespace.
RECURSIVE LStrip(_)
LStrip(s) ==
    IF s = <<>> THEN <<>>
    ELSE IF IsSpace(Head(s)) THEN LStrip(Tail(s))
    ELSE s

RECURSIVE RStrip(_)
RStrip(s) ==
    IF s = <<>> THEN <<>>
    ELSE IF IsSpace(s[Len(s)]) THEN RStrip(SubSeq(s, 1, Len(s) - 1))
    ELSE s

Strip(s) == RStrip(LStrip(s))

\* JSON / Python values.  A dict of the review payload is a record over the
\* five keys the code reads; a key that is missing holds Absent.
Absent == [t |-> "absent"]
JNull == [t |-> "null"]
JBool(b) == [t |-> "bool", b |-> b]
JInt(n) == [t |-> "int", n |-> n]
\* A float is kept in tenths: JFloat(857) is 85.7.
JFloat(tenths) == [t |-> "float", tenths |-> tenths]
JStr(s) == [t |-> "str", s |-> Str(s)]
JText(s) == [t |-> "str", s |-> s]
JArray == [t |-> "array"]

JObject(legal, brand, compliant, score, feedback) ==
    [t |-> "object",
     legal_compliant |-> legal,
     brand_compliant |-> brand,
     compliant |-> compliant,
     quality_score |-> score,
     feedback |-> feedback]

\* dict.get(key, default), the key's value being v.
Get(v, default) == IF v = Absent THEN default ELSE v

\* bool(x)
PyBool(v) ==
    CASE v.t = "bool" -> v.b
      [] v.t = "int" -> v.n # 0
      [] v.t = "float" -> v.tenths # 0
      [] v.t = "str" -> v.s # <<>>
      [] v.t = "null" -> FALSE
      [] v.t = "array" -> FALSE
      [] v.t = "object" -> TRUE

Digits == <<"0", "1", "2", "3", "4", "5", "6", "7", "8", "9">>

IsDigit(tok) == tok.t = "ch" /\ \E d \in 1..10 : Digits[d] = tok.c

DigitValue(tok) == (CHOOSE d \in 1..10 : Digits[d] = tok.c) - 1

RECURSIVE DecimalValue(_)
DecimalValue(s) ==
    IF s = <<>> THEN 0
    ELSE 10 * DecimalValue(SubSeq(s, 1, Len(s) - 1)) + DigitValue(s[Len(s)])

\* The digits of an int literal after strip() and an optional sign.
Unsigned(s) ==
    IF s # <<>> /\ s[1].t = "ch" /\ s[1].c \in {"+", "-"} THEN Tail(s) ELSE s

IsIntLiteral(s) ==
    /\ Unsigned(Strip(s)) # <<>>
    /\ \A i \in DOMAIN Unsigned(Strip(s)) : IsDigit(Unsigned(Strip(s))[i])

IntLiteral(s) ==
    IF Strip(s)[1].c = "-"
    THEN 0 - DecimalValue(Unsigned(Strip(s)))
    ELSE DecimalValue(Unsigned(Strip(s)))

\* Truncation toward zero of a float kept in tenths.
Trunc(tenths) == IF tenths >= 0 THEN tenths \div 10 ELSE 0 - ((0 - tenths) \div 10)

\* int(x): the value, or the exception it raises.
PyInt(v) ==
    CASE v.t = "int" -> [raised |-> FALSE, n |-> v.n]
      [] v.t = "bool" -> [raised |-> FALSE, n |-> IF v.b THEN 1 ELSE 0]
      [] v.t = "float" -> [raised |-> FALSE, n |-> Trunc(v.tenths)]
      [] v.t = "str" ->
            IF IsIntLiteral(v.s)
            THEN [raised |-> FALSE, n |-> IntLiteral(v.s)]
            ELSE [raised |-> TRUE, exc |-> "ValueError"]
      [] OTHER -> [raised |-> TRUE, exc |-> "TypeError"]

RECURSIVE NatDigits(_)
NatDigits(n) ==
    IF n < 10 THEN <<Ch(Digits[n + 1])>>
    ELSE Append(NatDigits(n \div 10), Ch(Digits[(n % 10) + 1]))

IntDigits(n) == IF n < 0 THEN <<Ch("-")>> \o NatDigits(0 - n) ELSE NatDigits(n)

\* str(x) of a payload value (the repr of containers is kept opaque).
PyStr(v) ==
    CASE v.t = "str" -> v.s
      [] v.t = "null" -> Str(<<"N", "o", "n", "e">>)
      [] v.t = "bool" -> IF v.b THEN Str(<<"T", "r", "u", "e">>)
                         ELSE Str(<<"F", "a", "l", "s", "e">>)
      [] v.t = "int" -> IntDigits(v.n)
      [] v.t = "float" ->
            (IF v.tenths < 0 THEN <<Ch("-")>> ELSE <<>>)
            \o NatDigits((IF v.tenths < 0 THEN 0 - v.tenths ELSE v.tenths) \div 10)
            \o <<Ch(".")>>
            \o NatDigits((IF v.tenths < 0 THEN 0 - v.tenths ELSE v.tenths) % 10)
      [] OTHER -> <<JsonTok(v)>>


(***************************************************************************)
(* review_image_with_gemini: the response of the review capability and     *)
(* what the adapter makes of it.                                           *)
(***************************************************************************)
\* client.models.generate_content raised (or _get_client did).
ErrorResponse == [kind |-> "error"]
\* A response whose text attribute is None.
NoTextResponse == [kind |-> "notext"]
TextResponse(text) == [kind |-> "text", text |-> text]

\* raw = (getattr(response, "text", "") or "").strip()
RawText(resp) == IF resp.kind = "text" THEN Strip(resp.text) ELSE <<>>

\* A JSON number written out in characters: optional minus, then digits.
IsJsonIntText(raw) ==
    /\ raw # <<>>
    /\ \A i \in DOMAIN raw : raw[i].t = "ch"
    /\ raw[1].c # "+"
    /\ IsIntLiteral(raw)
    /\ raw = Strip(raw)

\* json.loads(raw) returns a value exactly when raw is one JSON document.
JsonParses(raw) ==
    \/ Len(raw) = 1 /\ raw[1].t = "json"
    \/ IsJsonIntText(raw)

JsonLoads(raw) ==
    IF Len(raw) = 1 /\ raw[1].t = "json" THEN raw[1].value
    ELSE JInt(IntLiteral(raw))

NoJsonMessage ==
    Str(<<"M", "o", "d", "e", "l", " ", "d", "i", "d", " ", "n", "o", "t", " ",
          "r", "e", "t", "u", "r", "n", " ", "J", "S", "O", "N", ".">>)

\* A default that approves.
FallbackData_Approving(raw) ==
    JObject(JBool(TRUE), JBool(TRUE), JBool(TRUE), JInt(0),
            JText(IF raw # <<>> THEN raw ELSE NoJsonMessage))

\* The conservative default of the except branch.
FallbackData(raw) ==
    JObject(JBool(FALSE), JBool(FALSE), JBool(FALSE), JInt(0),
            JText(IF raw # <<>> THEN raw ELSE NoJsonMessage))

ParsedData(raw) == IF JsonParses(raw) THEN JsonLoads(raw) ELSE FallbackData(raw)

LegalCompliant(data) == PyBool(Get(data.legal_compliant, JBool(FALSE)))

BrandCompliant(data) == PyBool(Get(data.brand_compliant, JBool(FALSE)))

Compliant(data) ==
    PyBool(Get(data.compliant, JBool(LegalCompliant(data) /\ BrandCompliant(data))))

QualityScore(data) == PyInt(Get(data.quality_score, JInt(0)))

Feedback(data) == Strip(PyStr(Get(data.feedback, JText(<<>>))))

ImageReviewResult(data) ==
    [legal_compliant |-> LegalCompliant(data),
     brand_compliant |-> BrandCompliant(data),
     compliant |-> Compliant(data),
     quality_score |-> QualityScore(data).n,
     feedback |-> Feedback(data),
     raw_json |-> data]

Raised(exc) == [raised |-> TRUE, exc |-> exc]

Returned(result) == [raised |-> FALSE, result |-> result]

review_image_with_gemini(resp) ==
    IF resp.kind = "error" THEN Raised("CapabilityError")
    ELSE IF RawText(resp) = <<>> THEN Raised("RuntimeError")
    ELSE IF ParsedData(RawText(resp)).t # "object" THEN Raised("AttributeError")
    ELSE IF QualityScore(ParsedData(RawText(resp))).raised
         THEN Raised(QualityScore(ParsedData(RawText(resp))).exc)
    ELSE Returned(ImageReviewResult(ParsedData(RawText(resp))))

(***************************************************************************)
(* The answers the review capability gives in the model.                   *)
(***************************************************************************)
Padded(v) == TextResponse(<<Ch(" "), JsonTok(v), Ch("\n")>>)

Bare(v) == TextResponse(<<JsonTok(v)>>)

\* Approved, quality above the processor's threshold; a well-formed payload.
GoodResponse ==
    Padded(JObject(JBool(TRUE), JBool(TRUE), JBool(TRUE), JInt(85),
                   JStr(<<" ", "o", "k">>)))

\* Approved with a low score; the payload leaves compliant out.
LowResponse ==
    Bare(JObject(JBool(TRUE), JBool(TRUE), Absent, JInt(50), JStr(<<"d", "i", "m">>)))

MidResponse ==
    Bare(JObject(JBool(TRUE), JBool(TRUE), JBool(TRUE), JInt(60), JStr(<<"c", "r", "o", "p">>)))

\* Rejected; a well-formed payload.
RejectResponse ==
    Bare(JObject(JBool(FALSE), JBool(TRUE), JBool(FALSE), JInt(20), JStr(<<"l", "a", "w">>)))

\* The payload sets compliant itself although legal_compliant is false.
OverrideResponse ==
    Bare(JObject(JBool(FALSE), JBool(TRUE), JBool(TRUE), JInt(90), JStr(<<"o", "k">>)))

\* A score outside 0..100.
OverRangeResponse ==
    Bare(JObject(JBool(TRUE), JBool(TRUE), JBool(TRUE), JInt(150), JStr(<<"o", "k">>)))

\* An object with no field at all.
EmptyObjectResponse == Bare(JObject(Absent, Absent, Absent, Absent, Absent))

\* A quality_score that is not a number.
BadScoreResponse ==
    Bare(JObject(JBool(TRUE), JBool(TRUE), JBool(TRUE),
                 JStr(<<"h", "i", "g", "h">>), JStr(<<"o", "k">>)))

\* Valid JSON that is not an object.
ArrayResponse == Bare(JArray)

\* Text that is not JSON.
ProseResponse == TextResponse(Str(<<" ", "n", "o", " ", "j", "s", "o", "n", " ">>))

\* A JSON object wrapped in a fence of other characters: not JSON either.
FencedResponse ==
    TextResponse(<<Ch("~"), JsonTok(JObject(JBool(TRUE), JBool(TRUE), JBool(TRUE),
                                             JInt(85), JStr(<<"o", "k">>))), Ch("~")>>)

\* Nothing but whitespace.
BlankResponse == TextResponse(Str(<<" ", "\n">>))

ReviewResponses ==
    {ErrorResponse, NoTextResponse, BlankResponse, ProseResponse, FencedResponse,
     ArrayResponse, EmptyObjectResponse, BadScoreResponse, GoodResponse,
     LowResponse, MidResponse, RejectResponse, OverrideResponse, OverRangeResponse}

\* The answers drawn in the run of the whole pipeline.
PipelineResponses ==
    {ErrorResponse, NoTextResponse, RejectResponse, LowResponse, GoodResponse}

(***************************************************************************)
(* Program constants.                                                      *)
(***************************************************************************)
\* processor.py: the aspect ratios, in the order the dict is iterated.
ASPECT_SPECS ==
    <<[key |-> "1x1", size |-> <<1080, 1080>>],
      [key |-> "9x16", size |-> <<1080, 1920>>],
      [key |-> "16x9", size |-> <<1920, 1080>>]>>

\* The arguments generate_creatives_for_product passes to the loop.
ProcessorMaxIterations == 3
ProcessorMinQualityScore == 80

\* The thresholds a direct caller of the loop passes.
MinQualityScores == {60, 80}

Products == 1..NumProducts

Units == Products \X (1..Len(ASPECT_SPECS))

(***************************************************************************)
(* State.  An optional value (None or a value) is a sequence of length 0   *)
(* or 1.                                                                   *)
(***************************************************************************)
VARIABLES
    caller,                \* "direct": the loop is called on its own; "processor"
    pc,                    \* position of the thread of control
    product_idx,           \* cli.main: index into brief.products
    ratio_idx,             \* generate_creatives_for_product: index into ASPECT_SPECS
    files,                 \* <output_root>/<product>/<aspect>/creative.png
    max_iterations,        \* generate_with_review_loop: arguments
    min_quality_score,
    iteration,             \* generate_with_review_loop: locals
    last_image,
    last_feedback,
    best_compliant_image,
    best_review,
    current_image,
    result,                \* the pair the loop returned
    error,                 \* the exception in flight
    gen_calls,             \* history: the calls of generate_fn
    review_calls,          \* history: the calls of review_image_with_gemini
    returns,               \* history: what each call of the loop returned
    CLIENT,                \* the module global _CLIENT of each capability
    threads,               \* the callers of _get_client
    client_log,            \* history: constructions and handles handed out
    fit,                   \* a call of fit_image_with_safe_bottom_zone
    overlay,               \* a call of overlay_message_and_logo
    helper                 \* a call of slugify or of choose_message_for_locale

pipeline == <<caller, product_idx, ratio_idx, files>>

args == <<max_iterations, min_quality_score>>

locals == <<iteration, last_image, last_feedback, best_compliant_image,
            best_review, current_image>>

history == <<gen_calls, review_calls>>

\* The state of the run of the pipeline and of the loop.
base == <<pipeline, pc, args, locals, result, error, history, returns>>

\* The state of the functions that are modelled on their own.
aux == <<CLIENT, threads, client_log, fit, overlay, helper>>

vars == <<base, aux>>

\* A function that is not being called in the specification at hand.
Off == [pc |-> "off"]

AuxOff ==
    /\ CLIENT = Off
    /\ threads = Off
    /\ client_log = Off
    /\ fit = Off
    /\ overlay = Off
    /\ helper = Off

None == <<>>

Some(x) == <<x>>

\* The (product, aspect ratio) the thread of control is working on.
Unit == <<product_idx, ratio_idx>>

(***************************************************************************)
(* generate_with_review_loop                                               *)
(***************************************************************************)
\* Lines 321-326: the locals on entry.
EnterLoop ==
    /\ iteration = 0
    /\ last_image = None
    /\ last_feedback = None
    /\ best_compliant_image = None
    /\ best_review = None
    /\ current_image = None
    /\ result = None
    /\ error = None
    /\ gen_calls = <<>>
    /\ review_calls = <<>>

\* The same on a call made by the processor.
CallLoop ==
    /\ iteration' = 0
    /\ last_image' = None
    /\ last_feedback' = None
    /\ best_compliant_image' = None
    /\ best_review' = None
    /\ current_image' = None
    /\ result' = None
    /\ error' = None
    /\ gen_calls' = <<>>
    /\ review_calls' = <<>>

\* Off by one: range(max_iterations + 1).
HasNextIteration_OneMore(i, max) == i <= max

\* for iteration in range(max_iterations)
HasNextIteration(i, max) == i < max

\* The compliance test left out.
IsCompliant_Unchecked(review) == TRUE

\* if review.compliant
IsCompliant(review) == review.compliant

\* The first compliant review stays the stored best.
ReplacesBest_First(review, best) == best = None

\* A later review of equal score replaces the stored best.
ReplacesBest_OnTie(review, best) ==
    best = None \/ review.quality_score >= best[1].quality_score

\* Every compliant review replaces the stored best.
ReplacesBest_Latest(review, best) == TRUE

\* if best_review is None or review.quality_score > best_review.quality_score
ReplacesBest(review, best) ==
    best = None \/ review.quality_score > best[1].quality_score

\* The image of the first compliant review is kept with a later review.
NextBestImage_KeepsFirst(image, best_image) ==
    IF best_image = None THEN image ELSE best_image

\* best_compliant_image = current_image
NextBestImage(image, best_image) == image

\* The threshold itself does not count.
ReachesThreshold_Strict(review, min) == review.quality_score > min

\* if review.quality_score >= min_quality_score
ReachesThreshold(review, min) == review.quality_score >= min

\* return current_image, review
EarlyResult(image, review) == [image |-> image[1], review |-> review]

\* last_image = current_image; last_feedback = review.feedback
NextLastImage(image, review) == image

\* The feedback is passed on only when the review was not compliant.
NextLastFeedback_OnlyRejected(review) ==
    IF review.compliant THEN None ELSE Some(review.feedback)

NextLastFeedback(review) == Some(review.feedback)

\* if best_compliant_image is None or best_review is None
ExhaustedWithoutCompliant(best_image, best) == best_image = None \/ best = None

\* return best_compliant_image, best_review
FinalResult(best_image, best) == [image |-> best_image[1], review |-> best[1]]

\* The image handed to review_image_with_gemini.
ReviewedImage(image) == image[1]

\* A fresh image object: the n-th one generated for the unit.
NewImage(unit, n) == [unit |-> unit, n |-> n]

LoopReturns(res) ==
    /\ pc' = "returned"
    /\ result' = Some(res)
    /\ returns' = Append(returns, [unit |-> Unit, image |-> res.image,
                                   compliant |-> res.review.compliant])

\* An exception: its type and what its message names.
Exception(type, mentions) == [type |-> type, mentions |-> mentions]

Mention(what, n) == [what |-> what, n |-> n]

\* RuntimeError("Failed to generate a legally and brand-compliant image
\* after {max_iterations} iterations.")
ExhaustedError(max) == Exception("RuntimeError", {Mention("iterations", max)})

\* A failure after a compliant review returns the stored best in its place.
LoopRaises_ReturnsBest(exc) ==
    IF ExhaustedWithoutCompliant(best_compliant_image, best_review)
    THEN /\ pc' = "raised"
         /\ error' = Some(exc)
         /\ UNCHANGED <<result, returns>>
    ELSE /\ LoopReturns(FinalResult(best_compliant_image, best_review))
         /\ UNCHANGED error

LoopRaises(exc) ==
    /\ pc' = "raised"
    /\ error' = Some(exc)
    /\ UNCHANGED <<result, returns>>

\* current_image = generate_fn(last_image, last_feedback), the call returning.
Generate ==
    /\ pc = "loop"
    /\ HasNextIteration(iteration, max_iterations)
    /\ current_image' = Some(NewImage(Unit, Len(gen_calls) + 1))
    /\ gen_calls' = Append(gen_calls, [previous_image |-> last_image,
                                       previous_feedback |-> last_feedback,
                                       image |-> current_image'])
    /\ pc' = "review"
    /\ UNCHANGED aux
    /\ UNCHANGED <<pipeline, args, iteration, last_image, last_feedback,
                   best_compliant_image, best_review, result, error,
                   review_calls, returns>>

\* The failure is caught and a blank image is reviewed in its place.
GenerateFails_Masked ==
    /\ pc = "loop"
    /\ HasNextIteration(iteration, max_iterations)
    /\ gen_calls' = Append(gen_calls, [previous_image |-> last_image,
                                       previous_feedback |-> last_feedback,
                                       image |-> None])
    /\ current_image' = Some(NewImage(Unit, 0))
    /\ pc' = "review"
    /\ UNCHANGED aux
    /\ UNCHANGED <<pipeline, args, iteration, last_image, last_feedback,
                   best_compliant_image, best_review, result, error,
                   review_calls, returns>>

\* generate_fn raises: the generation capability failed.
GenerateFails ==
    /\ pc = "loop"
    /\ HasNextIteration(iteration, max_iterations)
    /\ gen_calls' = Append(gen_calls, [previous_image |-> last_image,
                                       previous_feedback |-> last_feedback,
                                       image |-> None])
    /\ LoopRaises(Exception("GenerationError", {}))
    /\ UNCHANGED aux
    /\ UNCHANGED <<pipeline, args, locals, review_calls>>

Responses == IF caller = "direct" THEN ReviewResponses ELSE PipelineResponses

\* Lines 340-374: the review and the rest of the iteration.
ReviewWith(resp) ==
    LET out == review_image_with_gemini(resp)
        review == out.result
    IN  /\ review_calls' = Append(review_calls,
                                  [image |-> ReviewedImage(current_image),
                                   response |-> resp, outcome |-> out])
        /\ IF out.raised
           THEN /\ LoopRaises(Exception(out.exc, {}))
                /\ UNCHANGED locals
           ELSE /\ IF IsCompliant(review) /\ ReplacesBest(review, best_review)
                   THEN /\ best_compliant_image' =
                               NextBestImage(current_image, best_compliant_image)
                        /\ best_review' = Some(review)
                   ELSE UNCHANGED <<best_compliant_image, best_review>>
                /\ IF IsCompliant(review) /\ ReachesThreshold(review, min_quality_score)
                   THEN /\ LoopReturns(EarlyResult(current_image, review))
                        /\ UNCHANGED <<iteration, last_image, last_feedback, error>>
                   ELSE /\ last_image' = NextLastImage(current_image, review)
                        /\ last_feedback' = NextLastFeedback(review)
                        /\ iteration' = iteration + 1
                        /\ pc' = "loop"
                        /\ UNCHANGED <<result, error, returns>>
                /\ UNCHANGED current_image

Review ==
    /\ pc = "review"
    /\ \E resp \in Responses : ReviewWith(resp)
    /\ UNCHANGED aux
    /\ UNCHANGED <<pipeline, args, gen_calls>>

\* Lines 376-385: the loop ran out of iterations.
Exhausted ==
    /\ pc = "loop"
    /\ ~HasNextIteration(iteration, max_iterations)
    /\ IF ExhaustedWithoutCompliant(best_compliant_image, best_review)
       THEN LoopRaises(ExhaustedError(max_iterations))
       ELSE /\ LoopReturns(FinalResult(best_compliant_image, best_review))
            /\ UNCHANGED error
    /\ UNCHANGED aux
    /\ UNCHANGED <<pipeline, args, locals, history>>

LoopNext == Generate \/ GenerateFails \/ Review \/ Exhausted

LoopInit ==
    /\ caller = "direct"
    /\ pc = "loop"
    /\ product_idx = 0
    /\ ratio_idx = 0
    /\ files = [u \in Units |-> None]
    /\ max_iterations \in 0..MaxIterBound
    /\ min_quality_score \in MinQualityScores
    /\ EnterLoop
    /\ returns = <<>>
    /\ AuxOff

LoopSpec == LoopInit /\ [][LoopNext]_vars

\* Every call the loop makes returns or fails.
LoopLive == LoopSpec /\ WF_vars(LoopNext)

(***************************************************************************)
(* cli.main and generate_creatives_for_product                             *)
(***************************************************************************)
Init ==
    /\ caller = "processor"
    /\ pc = "main"
    /\ product_idx = 1
    /\ ratio_idx = 1
    /\ files = [u \in Units |-> None]
    /\ max_iterations = ProcessorMaxIterations
    /\ min_quality_score = ProcessorMinQualityScore
    /\ EnterLoop
    /\ returns = <<>>
    /\ AuxOff

\* cli.main: for product in brief.products, the call of
\* generate_creatives_for_product up to its loop over ASPECT_SPECS.
StartProduct ==
    /\ pc = "main"
    /\ product_idx <= NumProducts
    /\ ratio_idx' = 1
    /\ pc' = "ratios"
    /\ UNCHANGED aux
    /\ UNCHANGED <<caller, product_idx, files, args, locals, result, error,
                   history, returns>>

\* for ratio_key, size in ASPECT_SPECS.items(): the call of the loop.
StartUnit ==
    /\ pc = "ratios"
    /\ ratio_idx <= Len(ASPECT_SPECS)
    /\ max_iterations' = ProcessorMaxIterations
    /\ min_quality_score' = ProcessorMinQualityScore
    /\ CallLoop
    /\ pc' = "loop"
    /\ UNCHANGED aux
    /\ UNCHANGED <<pipeline, returns>>

\* The image generated last is saved instead of the returned one.
SavedImage_LastGenerated(res) == current_image[1]

\* final_img.save(out_path, format="PNG")
SavedImage(res) == res.image

\* Lines 123-138: the loop returned; the creative is saved.
SaveCreative ==
    /\ pc = "returned"
    /\ caller = "processor"
    /\ files' = [files EXCEPT ![Unit] = Some(SavedImage(result[1]))]
    /\ ratio_idx' = ratio_idx + 1
    /\ pc' = "ratios"
    /\ CallLoop
    /\ UNCHANGED aux
    /\ UNCHANGED <<caller, product_idx, args, returns>>

\* generate_creatives_for_product returns to cli.main.
FinishProduct ==
    /\ pc = "ratios"
    /\ ratio_idx > Len(ASPECT_SPECS)
    /\ product_idx' = product_idx + 1
    /\ pc' = "main"
    /\ UNCHANGED aux
    /\ UNCHANGED <<caller, ratio_idx, files, args, locals, result, error,
                   history, returns>>

\* cli.main: the loop over the products is over.
Complete ==
    /\ pc = "main"
    /\ product_idx > NumProducts
    /\ pc' = "done"
    /\ UNCHANGED aux
    /\ UNCHANGED <<pipeline, args, locals, result, error, history, returns>>

\* The failure is caught per unit and the next aspect ratio is started.
Abort_SkipsUnit ==
    /\ pc = "raised"
    /\ caller = "processor"
    /\ ratio_idx' = ratio_idx + 1
    /\ pc' = "ratios"
    /\ CallLoop
    /\ UNCHANGED aux
    /\ UNCHANGED <<caller, product_idx, files, args, returns>>

\* No except clause anywhere: the exception leaves
\* generate_creatives_for_product and cli.main, and the process ends.
Abort ==
    /\ pc = "raised"
    /\ caller = "processor"
    /\ pc' = "aborted"
    /\ UNCHANGED aux
    /\ UNCHANGED <<pipeline, args, locals, result, error, history, returns>>

Next ==
    \/ StartProduct
    \/ StartUnit
    \/ Generate
    \/ GenerateFails
    \/ Review
    \/ Exhausted
    \/ SaveCreative
    \/ FinishProduct
    \/ Complete
    \/ Abort

Spec == Init /\ [][Next]_vars

TypeOK ==
    /\ caller \in {"direct", "processor"}
    /\ pc \in {"main", "ratios", "loop", "review", "returned", "raised",
               "aborted", "done"}
    /\ iteration \in 0..(MaxIterBound + 1)
    /\ Len(last_image) <= 1
    /\ Len(result) <= 1
    /\ Len(error) <= 1

(***************************************************************************)
(* _get_client of image_generator.py and of review_and_compliance.py: the  *)
(* lazily created client of each capability, called by several callers     *)
(* whose steps interleave.                                                 *)
(***************************************************************************)
\* Number of callers (threads of control) of _get_client.
NumCallers == 2
\* Number of calls each caller makes.
MaxCalls == 2

Callers == 1..NumCallers

Capabilities == {"generation", "review"}

\* The pipeline and the loop are not running.
BaseOff ==
    /\ caller = "none"
    /\ pc = "off"
    /\ product_idx = 0
    /\ ratio_idx = 0
    /\ files = [u \in Units |-> None]
    /\ max_iterations = 0
    /\ min_quality_score = 0
    /\ EnterLoop
    /\ returns = <<>>

\* if _CLIENT is not None
CacheHit(client) == client # None

\* The environment lets the client be made: an API key is set and the
\* google-genai package was imported.
CanConstruct(env) == env.api_key /\ env.genai

\* The value _get_client returns after it stored a new client:
\* image_generator.py returns the local, review_and_compliance.py reads
\* the global again.
ReturnedAfterStore(cap, local, global) ==
    IF cap = "generation" THEN local ELSE global

ClientInit ==
    /\ BaseOff
    /\ helper = Off
    /\ fit = Off
    /\ overlay = Off
    /\ CLIENT = [cap \in Capabilities |-> None]
    /\ threads = [t \in Callers |-> [pc |-> "idle", cap |-> "generation",
                                     local |-> None, calls |-> 0]]
    /\ \E key, pkg \in BOOLEAN :
          client_log = [env |-> [api_key |-> key, genai |-> pkg],
                        runs |-> [cap \in Capabilities |-> 0],
                        created |-> [cap \in Capabilities |-> 0],
                        received |-> [cap \in Capabilities |-> {}],
                        raised |-> 0,
                        overlapped |-> FALSE]

Receive(t, cap, handle) ==
    [client_log EXCEPT !.received[cap] = @ \cup {[by |-> t, handle |-> handle]}]

\* A caller enters _get_client: the test of the global and the checks of
\* the environment.
CallGetClient(t, cap) ==
    /\ threads[t].pc = "idle"
    /\ threads[t].calls < MaxCalls
    /\ LET busy == \E o \in Callers \ {t} : threads[o].pc # "idle"
           log == [client_log EXCEPT !.overlapped = @ \/ busy]
       IN  IF CacheHit(CLIENT[cap])
           THEN /\ threads' = [threads EXCEPT ![t] =
                       [pc |-> "hit", cap |-> cap, local |-> None,
                        calls |-> @.calls + 1]]
                /\ client_log' = log
           ELSE IF CanConstruct(client_log.env)
           THEN /\ threads' = [threads EXCEPT ![t] =
                       [pc |-> "construct", cap |-> cap, local |-> None,
                        calls |-> @.calls + 1]]
                /\ client_log' = log
           ELSE /\ threads' = [threads EXCEPT ![t].calls = @ + 1]
                /\ client_log' = [log EXCEPT !.raised = @ + 1]
    /\ UNCHANGED <<base, CLIENT, fit, overlay, helper>>

\* return _CLIENT, the global being read at the return.
ReturnCached(t) ==
    /\ threads[t].pc = "hit"
    /\ client_log' = Receive(t, threads[t].cap, CLIENT[threads[t].cap][1])
    /\ threads' = [threads EXCEPT ![t].pc = "idle"]
    /\ UNCHANGED <<base, CLIENT, fit, overlay, helper>>

\* genai.Client(api_key=api_key) returns a new client.
Construct(t) ==
    /\ threads[t].pc = "construct"
    /\ LET cap == threads[t].cap
           handle == [cap |-> cap, n |-> client_log.runs[cap] + 1]
       IN  /\ threads' = [threads EXCEPT ![t].pc = "store",
                                         ![t].local = Some(handle)]
           /\ client_log' = [client_log EXCEPT !.runs[cap] = @ + 1,
                                               !.created[cap] = @ + 1]
    /\ UNCHANGED <<base, CLIENT, fit, overlay, helper>>

\* genai.Client(api_key=api_key) raises; the global stays None.
ConstructFails(t) ==
    /\ threads[t].pc = "construct"
    /\ threads' = [threads EXCEPT ![t].pc = "idle"]
    /\ client_log' = [client_log EXCEPT !.runs[threads[t].cap] = @ + 1,
                                        !.raised = @ + 1]
    /\ UNCHANGED <<base, CLIENT, fit, overlay, helper>>

\* _CLIENT = client
StoreClient(t) ==
    /\ threads[t].pc = "store"
    /\ CLIENT' = [CLIENT EXCEPT ![threads[t].cap] = threads[t].local]
    /\ threads' = [threads EXCEPT ![t].pc = "return"]
    /\ UNCHANGED <<base, client_log, fit, overlay, helper>>

\* The return after the store.
ReturnNew(t) ==
    /\ threads[t].pc = "return"
    /\ client_log' = Receive(t, threads[t].cap,
                             ReturnedAfterStore(threads[t].cap, threads[t].local,
                                                CLIENT[threads[t].cap])[1])
    /\ threads' = [threads EXCEPT ![t].pc = "idle", ![t].local = None]
    /\ UNCHANGED <<base, CLIENT, fit, overlay, helper>>

ClientNext ==
    \E t \in Callers :
        \/ \E cap \in Capabilities : CallGetClient(t, cap)
        \/ ReturnCached(t)
        \/ Construct(t)
        \/ ConstructFails(t)
        \/ StoreClient(t)
        \/ ReturnNew(t)

ClientSpec == ClientInit /\ [][ClientNext]_vars

(***************************************************************************)
(* utils.py: fit_image_with_safe_bottom_zone.  Sizes are integers and the  *)
(* scale is the exact ratio the float stands for.                          *)
(***************************************************************************)
\* Largest side of the small source and destination sizes.
MaxSide == 6

Sides == 1..MaxSide

\* Sizes of images as they come from the image model or from an asset.
SourceSizes == {<<1024, 1024>>, <<1344, 768>>}

DestinationSizes == {ASPECT_SPECS[i].size : i \in 1..Len(ASPECT_SPECS)}

\* int(round(num / den)) for num >= 0, den > 0.  The float product that
\* stands for an exact half may lie on either side of it, and round() then
\* goes either way; away from a half the nearest integer is returned.
Rounds(num, den) ==
    LET q == num \div den
        r == num % den
    IN  IF 2 * r < den THEN {q}
        ELSE IF 2 * r > den THEN {q + 1}
        ELSE {q, q + 1}

Max(a, b) == IF a >= b THEN a ELSE b

Min(a, b) == IF a <= b THEN a ELSE b

\* _compute_cover_scale: max(dw / sw, dh / sh), as <<numerator, denominator>>.
CoverScale_Contain(sw, sh, dw, dh) ==
    IF dw * sh <= dh * sw THEN <<dw, sw>> ELSE <<dh, sh>>

CoverScale(sw, sh, dw, dh) ==
    IF dw * sh >= dh * sw THEN <<dw, sw>> ELSE <<dh, sh>>

\* bias = 0.35, in hundredths.
Bias == 35

\* The values top may take for an excess height.
CropTops_Centered(excess_h) ==
    IF excess_h <= 0 THEN {0} ELSE Rounds(excess_h * 50, 100)

CropTops(excess_h) ==
    IF excess_h <= 0 THEN {0} ELSE Rounds(excess_h * Bias, 100)

FitInputs ==
    {<<sw, sh, dw, dh>> : sw \in Sides, sh \in Sides, dw \in Sides, dh \in Sides}
        \cup {<<src[1], src[2], dst[1], dst[2]>> :
                 src \in SourceSizes, dst \in DestinationSizes}

FitInit ==
    /\ BaseOff
    /\ helper = Off
    /\ CLIENT = Off
    /\ threads = Off
    /\ client_log = Off
    /\ overlay = Off
    /\ \E in \in FitInputs :
          fit = [pc |-> "called", sw |-> in[1], sh |-> in[2],
                 dst_w |-> in[3], dst_h |-> in[4],
                 new_w |-> 0, new_h |-> 0, box |-> <<0, 0, 0, 0>>,
                 out |-> <<0, 0>>]

\* scale, new_w, new_h and img.resize((new_w, new_h)).
Resize ==
    /\ fit.pc = "called"
    /\ LET scale == CoverScale(fit.sw, fit.sh, fit.dst_w, fit.dst_h)
       IN  \E w \in Rounds(fit.sw * scale[1], scale[2]),
              h \in Rounds(fit.sh * scale[1], scale[2]) :
                fit' = [fit EXCEPT !.pc = "resized", !.new_w = w, !.new_h = h]
    /\ UNCHANGED <<base, CLIENT, threads, client_log, overlay, helper>>

\* left, top, the box, and resized.crop(box), whose size is the box's.
Crop ==
    /\ fit.pc = "resized"
    /\ LET left == Max(0, (fit.new_w - fit.dst_w) \div 2)
           right == left + fit.dst_w
           excess_h == fit.new_h - fit.dst_h
       IN  \E top \in CropTops(excess_h) :
              LET bottom == top + fit.dst_h
              IN  fit' = [fit EXCEPT !.pc = "cropped",
                                     !.box = <<left, top, right, bottom>>,
                                     !.out = <<right - left, bottom - top>>]
    /\ UNCHANGED <<base, CLIENT, threads, client_log, overlay, helper>>

FitNext == Resize \/ Crop

FitSpec == FitInit /\ [][FitNext]_vars

(***************************************************************************)
(* utils.py: overlay_message_and_logo, the geometry of the text panel and  *)
(* of the logo card.  int(n * c) is the floor of the exact product, which  *)
(* is what the float product truncates to for the sizes used here.         *)
(***************************************************************************)
\* Largest number of words of a message.
MaxWords == 24

\* A message is the sequence of the lengths of its words: words of WordLen
\* characters, and one word too long for any line.
WordLen == 15

LongWord == 120

Messages ==
    {[i \in 1..n |-> WordLen] : n \in 0..MaxWords} \cup {<<LongWord>>}

\* The sizes (width, height) of the brand's logo image; None when there is
\* no logo to draw.
Logos == {None, Some(<<512, 512>>), Some(<<400, 100>>), Some(<<100, 300>>)}

\* _load_font: arial.ttf at the computed size, or Pillow's default font.
Fonts == {"truetype", "default"}

DefaultFontSize == 10

font_scales == <<60, 55, 50, 45, 40, 35>>

\* int(n * num / den)
Scaled(n, num, den) == (n * num) \div den

_load_font(font, target_height) ==
    IF font = "truetype" THEN Max(14, Scaled(target_height, 7, 10))
    ELSE DefaultFontSize

\* Pillow's metrics, taken as: a character or a space advances half the
\* font size, and a line is as high as the font size.
_measure_text_width(chars, size) == chars * (size \div 2)

\* _wrap_text from the word at index i on, current being the line in hand.
RECURSIVE WrapFrom(_, _, _, _, _, _)
WrapFrom(words, i, current, lines, size, max_width) ==
    IF i > Len(words) THEN Append(lines, current)
    ELSE LET trial == current + 1 + words[i]
         IN  IF _measure_text_width(trial, size) <= max_width
             THEN WrapFrom(words, i + 1, trial, lines, size, max_width)
             ELSE WrapFrom(words, i + 1, words[i], Append(lines, current),
                           size, max_width)

\* The lines of the wrapped text, each as its number of characters.
_wrap_text(words, size, max_width) ==
    IF words = <<>> THEN <<>>
    ELSE WrapFrom(words, 2, words[1], <<>>, size, max_width)

RECURSIVE Widest(_, _)
Widest(lines, size) ==
    IF lines = <<>> THEN 0
    ELSE Max(_measure_text_width(Head(lines), size), Widest(Tail(lines), size))

\* multiline_textbbox(..., spacing=4): <<text_w, text_h>>.
TextBBox(lines, size) ==
    IF lines = <<>> THEN <<0, 0>>
    ELSE <<Widest(lines, size), Len(lines) * size + (Len(lines) - 1) * 4>>

\* The geometry computed before the search, lines 197-222.
Layout(w, h) ==
    LET margin_x == Scaled(w, 5, 100)
        margin_y == Scaled(h, 6, 100)
        card_target_h == Scaled(h, 14, 100)
        card_pad == Scaled(card_target_h, 25, 100)
        card_w == card_target_h + 2 * card_pad
        card_x1 == w - margin_x
        card_x0 == card_x1 - card_w
        max_panel_right == card_x0 - 2 * margin_x
    IN  [margin_x |-> margin_x, margin_y |-> margin_y,
         card_target_h |-> card_target_h, card_pad |-> card_pad,
         card_x0 |-> card_x0,
         max_panel_right |-> max_panel_right,
         panel_max_width |-> Max(Scaled(w, 4, 10), max_panel_right - margin_x),
         max_panel_height |-> Scaled(h, 26, 100)]

\* The trial panel of one candidate scale (in thousandths of the height).
Trial(o, scale) ==
    LET lay == Layout(o.w, o.h)
        size == _load_font(o.font, Scaled(o.h, scale, 1000))
        wrapped == _wrap_text(o.message, size,
                              lay.panel_max_width - Scaled(o.w, 6, 100))
        bbox == TextBBox(wrapped, size)
        pad_x == Scaled(o.w, 3, 100)
        pad_y == Scaled(o.h, 25, 1000)
    IN  [w |-> Min(lay.panel_max_width, bbox[1] + 2 * pad_x),
         h |-> bbox[2] + 2 * pad_y]

\* if trial_panel_h <= max_panel_height
Accepts(trial_panel_h, max_panel_height) == trial_panel_h <= max_panel_height

\* panel_h of the fallback: min(max_panel_height, text_h + 2 * pad_y)
FallbackHeight_Unclipped(max_panel_height, trial_panel_h) == trial_panel_h

FallbackHeight(max_panel_height, trial_panel_h) ==
    Min(max_panel_height, trial_panel_h)

OverlayInit ==
    /\ BaseOff
    /\ helper = Off
    /\ CLIENT = Off
    /\ threads = Off
    /\ client_log = Off
    /\ fit = Off
    /\ \E size \in DestinationSizes, message \in Messages, logo \in Logos,
          font \in Fonts :
          overlay = [pc |-> "search", w |-> size[1], h |-> size[2],
                     message |-> message, logo |-> logo, font |-> font,
                     i |-> 1, chosen |-> 0, fallback |-> FALSE,
                     panel_w |-> 0, panel_h |-> 0,
                     panel |-> <<0, 0, 0, 0>>, card |-> None]

\* One pass of `for scale in font_scales`, with its break.
TryScale ==
    /\ overlay.pc = "search"
    /\ LET trial == Trial(overlay, font_scales[overlay.i])
           lay == Layout(overlay.w, overlay.h)
       IN  IF Accepts(trial.h, lay.max_panel_height)
           THEN overlay' = [overlay EXCEPT !.chosen = overlay.i,
                                           !.panel_w = trial.w,
                                           !.panel_h = trial.h,
                                           !.pc = "searched"]
           ELSE overlay' = [overlay EXCEPT
                               !.i = @ + 1,
                               !.pc = IF overlay.i = Len(font_scales)
                                      THEN "searched" ELSE "search"]
    /\ UNCHANGED <<base, CLIENT, threads, client_log, fit, helper>>

\* if chosen_font is None: the smallest scale, the height clipped.
Fallback ==
    /\ overlay.pc = "searched"
    /\ overlay.chosen = 0
    /\ LET trial == Trial(overlay, font_scales[Len(font_scales)])
           lay == Layout(overlay.w, overlay.h)
       IN  overlay' = [overlay EXCEPT
                          !.chosen = Len(font_scales),
                          !.fallback = TRUE,
                          !.panel_w = trial.w,
                          !.panel_h = FallbackHeight(lay.max_panel_height, trial.h)]
    /\ UNCHANGED <<base, CLIENT, threads, client_log, fit, helper>>

\* The panel, anchored to the bottom-left.
DrawPanel ==
    /\ overlay.pc = "searched"
    /\ overlay.chosen # 0
    /\ LET lay == Layout(overlay.w, overlay.h)
           panel_x0 == lay.margin_x
           panel_y1 == overlay.h - lay.margin_y
       IN  overlay' = [overlay EXCEPT
                          !.panel = <<panel_x0, panel_y1 - overlay.panel_h,
                                      panel_x0 + overlay.panel_w, panel_y1>>,
                          !.pc = "logo"]
    /\ UNCHANGED <<base, CLIENT, threads, client_log, fit, helper>>

\* The logo card, its size recomputed from the logo scaled to the target
\* height.
DrawLogo ==
    /\ overlay.pc = "logo"
    /\ overlay.logo # None
    /\ LET lay == Layout(overlay.w, overlay.h)
           logo_img == overlay.logo[1]
           logo_w == (logo_img[1] * lay.card_target_h) \div logo_img[2]
           logo_h == (logo_img[2] * lay.card_target_h) \div logo_img[2]
           card_w == logo_w + 2 * lay.card_pad
           card_h == logo_h + 2 * lay.card_pad
           card_x1 == overlay.w - lay.margin_x
           card_y1 == overlay.h - lay.margin_y
       IN  overlay' = [overlay EXCEPT
                          !.card = Some(<<card_x1 - card_w, card_y1 - card_h,
                                          card_x1, card_y1>>),
                          !.pc = "done"]
    /\ UNCHANGED <<base, CLIENT, threads, client_log, fit, helper>>

\* No logo_path, or no file at it: no card is drawn.
SkipLogo ==
    /\ overlay.pc = "logo"
    /\ overlay.logo = None
    /\ overlay' = [overlay EXCEPT !.pc = "done"]
    /\ UNCHANGED <<base, CLIENT, threads, client_log, fit, helper>>

OverlayNext == TryScale \/ Fallback \/ DrawPanel \/ DrawLogo \/ SkipLogo

OverlaySpec == OverlayInit /\ [][OverlayNext]_vars

(***************************************************************************)
(* utils.py: slugify and choose_message_for_locale.  A string is the       *)
(* sequence of its characters.                                             *)
(***************************************************************************)
\* Longest text given to slugify.
MaxTextLen == 4

\* The characters of the texts: a lowercase and an uppercase letter, a
\* digit, the three separators, a symbol, and a whitespace character that
\* is not the space.
TextChars == {"a", "B", "1", " ", "-", "_", ".", "\t"}

Texts == UNION {[1..n -> TextChars] : n \in 0..MaxTextLen}

\* str.lower() of one character.
Lower(ch) == IF ch = "B" THEN "b" ELSE ch

\* ch.isalnum()
IsAlnum(ch) == ch \in {"a", "b", "B", "1"}

\* str.strip(chars): drops the leading and the trailing characters in chars.
RECURSIVE LStripChars(_, _)
LStripChars(s, chars) ==
    IF s = <<>> THEN <<>>
    ELSE IF Head(s) \in chars THEN LStripChars(Tail(s), chars)
    ELSE s

RECURSIVE RStripChars(_, _)
RStripChars(s, chars) ==
    IF s = <<>> THEN <<>>
    ELSE IF s[Len(s)] \in chars THEN RStripChars(SubSeq(s, 1, Len(s) - 1), chars)
    ELSE s

StripChars(s, chars) == RStripChars(LStripChars(s, chars), chars)

\* The loop over the characters: an alphanumeric is kept, a space, "-" or
\* "_" becomes "-", anything else is dropped.
RECURSIVE OutChars(_)
OutChars(text) ==
    IF text = <<>> THEN <<>>
    ELSE IF IsAlnum(Head(text)) THEN <<Head(text)>> \o OutChars(Tail(text))
    ELSE IF Head(text) \in {" ", "-", "_"} THEN <<"-">> \o OutChars(Tail(text))
    ELSE OutChars(Tail(text))

Item == <<"i", "t", "e", "m">>

slugify(text) ==
    LET stripped == StripChars(text, {" ", "\t"})
        lowered == [i \in DOMAIN stripped |-> Lower(stripped[i])]
        res == StripChars(OutChars(lowered), {"-"})
    IN  IF res = <<>> THEN Item ELSE res

\* The locales asked for and the keys of message_localized.
Locales ==
    {<<"f", "r">>, <<"f", "r", "_", "C", "A">>, <<"d", "e", "_", "D", "E">>,
     <<"f", "r", "_", "C", "A", "_", "x">>, <<"f", "r", "-", "C", "A">>,
     <<"_", "C", "A">>, <<>>}

LocaleKeys ==
    {<<"f", "r">>, <<"f", "r", "_", "C", "A">>, <<"d", "e">>, <<>>}

\* The message stored under a key, and the product's default message.
Localized(key) == [of |-> key]

DefaultMessage == [of |-> <<"d", "e", "f", "a", "u", "l", "t">>]

MessageMaps ==
    {[k \in keys |-> Localized(k)] : keys \in SUBSET LocaleKeys}

\* locale.split("_", 1)[0]
RECURSIVE SplitFirst(_, _)
SplitFirst(str, sep) ==
    IF str = <<>> THEN <<>>
    ELSE IF Head(str) = sep THEN <<>>
    ELSE <<Head(str)>> \o SplitFirst(Tail(str), sep)

choose_message_for_locale_LangFirst(message_localized, message, locale) ==
    LET lang == SplitFirst(locale, "_")
    IN  IF DOMAIN message_localized # {}
        THEN IF lang \in DOMAIN message_localized THEN message_localized[lang]
             ELSE IF locale \in DOMAIN message_localized
             THEN message_localized[locale]
             ELSE message
        ELSE message

choose_message_for_locale(message_localized, message, locale) ==
    LET lang == SplitFirst(locale, "_")
    IN  IF DOMAIN message_localized # {}
        THEN IF locale \in DOMAIN message_localized
             THEN message_localized[locale]
             ELSE IF lang \in DOMAIN message_localized
             THEN message_localized[lang]
             ELSE message
        ELSE message

HelperInit ==
    /\ BaseOff
    /\ CLIENT = Off
    /\ threads = Off
    /\ client_log = Off
    /\ fit = Off
    /\ overlay = Off
    /\ \/ \E text \in Texts :
             helper = [pc |-> "called", fn |-> "slugify", text |-> text,
                       message_localized |-> <<>>, locale |-> <<>>,
                       returned |-> <<>>]
       \/ \E map \in MessageMaps, locale \in Locales :
             helper = [pc |-> "called", fn |-> "choose_message_for_locale",
                       text |-> <<>>, message_localized |-> map,
                       locale |-> locale, returned |-> <<>>]

Slugify ==
    /\ helper.pc = "called"
    /\ helper.fn = "slugify"
    /\ helper' = [helper EXCEPT !.pc = "returned",
                                !.returned = slugify(helper.text)]
    /\ UNCHANGED <<base, CLIENT, threads, client_log, fit, overlay>>

ChooseMessage ==
    /\ helper.pc = "called"
    /\ helper.fn = "choose_message_for_locale"
    /\ helper' = [helper EXCEPT
                     !.pc = "returned",
                     !.returned = choose_message_for_locale(
                                      helper.message_localized, DefaultMessage,
                                      helper.locale)]
    /\ UNCHANGED <<base, CLIENT, threads, client_log, fit, overlay>>

HelperNext == Slugify \/ ChooseMessage

HelperSpec == HelperInit /\ [][HelperNext]_vars

(***************************************************************************)
(* Vocabulary of the properties.                                           *)
(***************************************************************************)
Terminal == pc \in {"returned", "raised", "aborted"}

\* The i-th review call returned a result.
ReviewReturned(i) == ~review_calls[i].outcome.raised

ReviewResult(i) == review_calls[i].outcome.result

CompliantAt(i) == ReviewReturned(i) /\ ReviewResult(i).compliant

\* The i-th review is compliant and reaches the quality threshold.
Qualifies(i) ==
    CompliantAt(i) /\ ReviewResult(i).quality_score >= min_quality_score

CompliantIterations == {i \in DOMAIN review_calls : CompliantAt(i)}

\* The budget was used up: every iteration ran, none raised, none qualified.
BudgetExhausted ==
    /\ Len(review_calls) = max_iterations
    /\ \A i \in DOMAIN review_calls : ReviewReturned(i) /\ ~Qualifies(i)

\* The earliest of the compliant iterations with the highest score.
BestIteration ==
    CHOOSE k \in CompliantIterations :
        \A j \in CompliantIterations :
            \/ ReviewResult(k).quality_score > ReviewResult(j).quality_score
            \/ /\ ReviewResult(k).quality_score = ReviewResult(j).quality_score
               /\ k <= j

\* The (image, review) pair of iteration i.
PairOf(i) == [image |-> gen_calls[i].image[1], review |-> ReviewResult(i)]

(***************************************************************************)
(* C1: whenever generate_with_review_loop returns a pair (image, review),  *)
(* the review is compliant, for every max_iterations, min_quality_score    *)
(* and sequence of review outcomes.                                        *)
(***************************************************************************)
C1_NeverReturnsNonCompliant ==
    pc = "returned" => result # None /\ result[1].review.compliant

\* The loop returned after it had seen a non-compliant review.
C1_Witness ==
    /\ pc = "returned"
    /\ result[1].review.compliant
    /\ \E i \in DOMAIN review_calls : ReviewReturned(i) /\ ~ReviewResult(i).compliant

(***************************************************************************)
(* C2: the loop returns at the first iteration whose review is compliant   *)
(* with quality_score >= min_quality_score; it returns that iteration's    *)
(* image and review, and makes no generate or review call after it.        *)
(***************************************************************************)
C2_EarlyExit ==
    \A i \in DOMAIN review_calls :
        Qualifies(i) =>
            /\ pc = "returned"
            /\ result = Some(PairOf(i))
            /\ Len(review_calls) = i
            /\ Len(gen_calls) = i
            /\ \A j \in 1..(i - 1) : ~Qualifies(j)

\* An early exit in the second iteration, with budget left, after a
\* compliant review below the threshold.
C2_Witness ==
    /\ pc = "returned"
    /\ Len(review_calls) = 2
    /\ max_iterations > 2
    /\ CompliantAt(1) /\ ~Qualifies(1)
    /\ Qualifies(2)

(***************************************************************************)
(* C3: when the budget runs out with no review both compliant and at the   *)
(* threshold, but some review was compliant, the loop has run exactly      *)
(* max_iterations iterations and returns the compliant pair with the       *)
(* highest quality_score, the earliest one among equal scores.             *)
(***************************************************************************)
C3_BestCompliantOnExhaustion ==
    /\ (Terminal /\ BudgetExhausted /\ CompliantIterations # {}) =>
            /\ pc = "returned"
            /\ result = Some(PairOf(BestIteration))
            /\ Len(gen_calls) = max_iterations
    /\ (pc = "returned" /\ \A i \in DOMAIN review_calls : ~Qualifies(i)) =>
            /\ BudgetExhausted
            /\ CompliantIterations # {}

\* The budget ran out with two compliant reviews of equal, highest score
\* and a third of lower score; the first of the two was returned.
C3_Witness ==
    /\ pc = "returned"
    /\ BudgetExhausted
    /\ \E i, j, k \in CompliantIterations :
          /\ i < j
          /\ ReviewResult(i).quality_score = ReviewResult(j).quality_score
          /\ ReviewResult(k).quality_score < ReviewResult(i).quality_score
          /\ k < i
          /\ result[1].image = gen_calls[i].image[1]

(***************************************************************************)
(* C4: when every one of the max_iterations reviews is non-compliant, the  *)
(* loop raises after exactly max_iterations generate/review cycles and     *)
(* returns nothing, and no creative.png is written for the unit.           *)
(***************************************************************************)
AllNonCompliant ==
    /\ Len(review_calls) = max_iterations
    /\ \A i \in DOMAIN review_calls : ReviewReturned(i) /\ ~ReviewResult(i).compliant

C4_NoCompliantRaises ==
    AllNonCompliant =>
        /\ pc \in {"loop", "raised", "aborted"}
        /\ result = None
        /\ files[Unit] = None
        /\ \A i \in DOMAIN returns : returns[i].unit # Unit
        /\ Len(gen_calls) = max_iterations
        /\ (pc # "loop" => error # None /\ error[1].type = "RuntimeError")

\* The second unit failed after three non-compliant reviews.
C4_Witness ==
    /\ pc = "aborted"
    /\ AllNonCompliant
    /\ Len(gen_calls) = ProcessorMaxIterations
    /\ Unit = <<1, 2>>
    /\ files[<<1, 1>>] # None
    /\ files[<<1, 2>>] = None

(***************************************************************************)
(* C5: over a whole run, every creative.png written is the image returned  *)
(* by a call of the loop for that unit whose returned review is            *)
(* compliant; a unit's file is written only after its loop has returned    *)
(* and never for a unit whose loop failed.                                 *)
(***************************************************************************)
InLoop == pc \in {"loop", "review", "returned", "raised", "aborted"}

C5_OnlyApprovedFiles ==
    /\ \A u \in Units :
          files[u] # None =>
              \E i \in DOMAIN returns :
                  /\ returns[i].unit = u
                  /\ returns[i].image = files[u][1]
                  /\ returns[i].compliant
    /\ InLoop => files[Unit] = None

\* The first unit's file is the image of its second iteration, and the
\* second unit failed without a file.
C5_Witness ==
    /\ pc = "aborted"
    /\ Unit = <<1, 2>>
    /\ files[<<1, 1>>] = Some(NewImage(<<1, 1>>, 2))
    /\ files[<<1, 2>>] = None

(***************************************************************************)
(* C6: in every result the loop returns, legal_compliant and               *)
(* brand_compliant are true, whatever payload the review capability        *)
(* returned.  (Violated: a payload that sets compliant itself.)            *)
(***************************************************************************)
C6_ReturnedIsLegalAndBrand ==
    pc = "returned" =>
        /\ result[1].review.legal_compliant
        /\ result[1].review.brand_compliant

(***************************************************************************)
(* C7: the loop always reaches a terminal state (a return or a raise),     *)
(* having made at most max_iterations generate calls and at most           *)
(* max_iterations review calls.                                            *)
(***************************************************************************)
C7_Terminates ==
    /\ <>(pc \in {"returned", "raised"})
    /\ [](Len(gen_calls) <= max_iterations /\ Len(review_calls) <= max_iterations)

\* The loop ended having used its whole budget, the largest one.
C7_Witness ==
    /\ pc \in {"returned", "raised"}
    /\ max_iterations = MaxIterBound
    /\ Len(gen_calls) = max_iterations
    /\ Len(review_calls) = max_iterations

(***************************************************************************)
(* C8: the first generate_fn call receives (None, None); the call of the   *)
(* next iteration receives the image of the previous iteration and the     *)
(* feedback of its review, compliant or not; each review is made on the    *)
(* image generated in the same iteration.                                  *)
(***************************************************************************)
C8_CallbackProtocol ==
    /\ \A k \in DOMAIN gen_calls :
          IF k = 1
          THEN /\ gen_calls[k].previous_image = None
               /\ gen_calls[k].previous_feedback = None
          ELSE /\ gen_calls[k].previous_image = gen_calls[k - 1].image
               /\ gen_calls[k].previous_image # None
               /\ ReviewReturned(k - 1)
               /\ gen_calls[k].previous_feedback = Some(ReviewResult(k - 1).feedback)
    /\ \A k \in DOMAIN review_calls :
          /\ k \in DOMAIN gen_calls
          /\ Some(review_calls[k].image) = gen_calls[k].image

\* Three generate calls, the first review compliant, the second not.
C8_Witness ==
    /\ Len(gen_calls) >= 3
    /\ CompliantAt(1)
    /\ ReviewReturned(2) /\ ~ReviewResult(2).compliant
    /\ gen_calls[2].previous_feedback # gen_calls[3].previous_feedback

(***************************************************************************)
(* C9: a response text that json.loads rejects maps to the conservative    *)
(* default: legal_compliant, brand_compliant and compliant false,          *)
(* quality_score 0, feedback the raw text.                                 *)
(***************************************************************************)
ParseFailure(resp) ==
    /\ resp.kind = "text"
    /\ Strip(resp.text) # <<>>
    /\ ~JsonParses(Strip(resp.text))

WellFormedPayload(v) ==
    /\ v.t = "object"
    /\ v.legal_compliant.t = "bool"
    /\ v.brand_compliant.t = "bool"
    /\ v.compliant.t = "bool"
    /\ v.quality_score.t = "int"
    /\ v.feedback.t = "str"

WellFormedResponse(resp) ==
    /\ resp.kind = "text"
    /\ Len(Strip(resp.text)) = 1
    /\ Strip(resp.text)[1].t = "json"
    /\ WellFormedPayload(Strip(resp.text)[1].value)

C10_MalformedIsRecovered ==
    \A i \in DOMAIN review_calls :
        (review_calls[i].response.kind # "error"
         /\ ~WellFormedResponse(review_calls[i].response)) =>
            /\ ReviewReturned(i)
            /\ ~ReviewResult(i).compliant
            /\ (i = Len(review_calls) => pc # "raised")

(***************************************************************************)
(* C11: every ImageReviewResult has a quality_score in 0..100, whatever    *)
(* the payload carries.  (Violated: the score is only converted by int.)   *)
(***************************************************************************)
C11_ScoreInRange ==
    \A i \in DOMAIN review_calls :
        ReviewReturned(i) => ReviewResult(i).quality_score \in 0..100

(***************************************************************************)
(* C13: when the generation fails in an iteration, the loop raises; no     *)
(* review call is made for that iteration, no image is substituted,        *)
(* nothing is returned and no file is written for the unit.                *)
(***************************************************************************)
C13_GenerationFailureIsFatal ==
    \A k \in DOMAIN gen_calls :
        gen_calls[k].image = None =>
            /\ k = Len(gen_calls)
            /\ pc \in {"raised", "aborted"}
            /\ error # None
            /\ error[1].type = "GenerationError"
            /\ Len(review_calls) = k - 1
            /\ result = None
            /\ files[Unit] = None
            /\ \A i \in DOMAIN returns : returns[i].unit # Unit

\* The generation failed in the second iteration although the first had
\* given a compliant image, and the run ended without a file for the unit.
C13_Witness ==
    /\ pc = "aborted"
    /\ Len(gen_calls) = 2
    /\ gen_calls[2].image = None
    /\ CompliantAt(1)
    /\ best_compliant_image # None
    /\ files[Unit] = None

(***************************************************************************)
(* C14: the failure raised when the budget runs out without a compliant    *)
(* review names the product, the aspect ratio and the iteration count of   *)
(* the unit.  (Violated: the message names the iteration count only.)      *)
(***************************************************************************)
C14_FailureNamesUnit ==
    (pc \in {"raised", "aborted"} /\ AllNonCompliant) =>
        /\ error # None
        /\ Mention("iterations", max_iterations) \in error[1].mentions
        /\ Mention("product", product_idx) \in error[1].mentions
        /\ Mention("aspect", ratio_idx) \in error[1].mentions

(***************************************************************************)
(* C15, as stated: whenever the loop returns, the returned pair is that    *)
(* of the latest iteration whose review was compliant.  (Violated.)        *)
(***************************************************************************)
LatestCompliant ==
    CHOOSE k \in CompliantIterations : \A j \in CompliantIterations : j <= k

Handles(cap) == {r.handle : r \in client_log.received[cap]}

SequentialCallersShareClient ==
    ~client_log.overlapped =>
        \A cap \in Capabilities :
            /\ client_log.created[cap] <= 1
            /\ Cardinality(Handles(cap)) <= 1
            /\ \A h \in Handles(cap) : CLIENT[cap] = Some(h)

\* Without any overlap both callers were handed the review client, which
\* was made once.
SequentialCallersWitness ==
    /\ ~client_log.overlapped
    /\ client_log.created["review"] = 1
    /\ \A t \in Callers : \E r \in client_log.received["review"] : r.by = t
    /\ \A t \in Callers : threads[t].pc = "idle"

(***************************************************************************)
(* fit_image_with_safe_bottom_zone: the rows and columns of a finished     *)
(* crop.                                                                   *)
(***************************************************************************)
Cropped == fit.pc = "cropped"

Left == fit.box[1]

Top == fit.box[2]

ExcessH == fit.new_h - fit.dst_h

\* Rows of the scaled image cut away below the kept region.
CutBelow == ExcessH - Top

(***************************************************************************)
(* C17: the scaled image is at least as wide and as high as the            *)
(* destination, the crop box [left, left + dw) x [top, top + dh) lies       *)
(* inside the scaled image, and the output has exactly the destination     *)
(* size.                                                                   *)
(***************************************************************************)
C17_CoversAndCropsInside ==
    /\ fit.pc \in {"resized", "cropped"} =>
          /\ fit.new_w >= fit.dst_w
          /\ fit.new_h >= fit.dst_h
    /\ Cropped =>
          /\ Left >= 0
          /\ Top >= 0
          /\ fit.box[3] = Left + fit.dst_w
          /\ fit.box[4] = Top + fit.dst_h
          /\ fit.box[3] <= fit.new_w
          /\ fit.box[4] <= fit.new_h
          /\ fit.out = <<fit.dst_w, fit.dst_h>>

\* A crop that cuts columns on both sides of a wider scaled image, the
\* source and the destination having different shapes.
C17_Witness ==
    /\ Cropped
    /\ fit.new_w > fit.dst_w
    /\ Left > 0
    /\ fit.sw # fit.dst_w
    /\ fit.sh # fit.dst_h

(***************************************************************************)
(* C18: top is 0 when the scaled height does not exceed the destination    *)
(* height; otherwise top is 0.35 x excess rounded to a nearest integer     *)
(* and top + destination height is at most the scaled height.              *)
(***************************************************************************)
C18_CropOffset ==
    Cropped =>
        IF fit.new_h <= fit.dst_h
        THEN Top = 0
        ELSE /\ 100 * Top - 35 * ExcessH <= 50
             /\ 35 * ExcessH - 100 * Top <= 50
             /\ Top + fit.dst_h <= fit.new_h

\* A crop of a higher scaled image whose offset is not 0.
C18_Witness ==
    /\ Cropped
    /\ ExcessH >= 10
    /\ Top > 0

(***************************************************************************)
(* C19, as stated: whenever the scaled height exceeds the destination      *)
(* height, the rows cut above the kept region are at least as many as the  *)
(* rows cut below it.  (Violated: a bias of 0.35 cuts about a third above  *)
(* and two thirds below.)                                                  *)
(***************************************************************************)
C19_CutsMoreFromTop ==
    (Cropped /\ fit.new_h > fit.dst_h) => Top >= CutBelow

(***************************************************************************)
(* overlay_message_and_logo: the panel and the card as drawn.              *)
(***************************************************************************)
PanelDrawn == overlay.pc \in {"logo", "done"}

CardDrawn == overlay.pc = "done" /\ overlay.card # None

\* The candidate at index i gives a padded panel no higher than H_max.
Fits(i) ==
    Trial(overlay, font_scales[i]).h <= Layout(overlay.w, overlay.h).max_panel_height

Candidates == 1..Len(font_scales)

(***************************************************************************)
(* C16, as stated: the right edge of the drawn text panel is at most the   *)
(* left edge of the drawn logo card minus 2 x margin_x, for every          *)
(* message, canvas and logo.  (Violated by a logo wider than it is high.)  *)
(***************************************************************************)
C16_PanelClearOfCard ==
    CardDrawn =>
        overlay.panel[3] <=
            overlay.card[1][1] - 2 * Layout(overlay.w, overlay.h).margin_x

(***************************************************************************)
(* C20: the chosen candidate is the largest one whose padded panel height  *)
(* is at most H_max, every larger one having given a higher panel; when    *)
(* none fits the smallest is used and the panel height is clipped to       *)
(* H_max; the panel is never higher than H_max nor wider than the width    *)
(* budget.                                                                 *)
(***************************************************************************)
C20_LargestFittingFont ==
    PanelDrawn =>
        LET lay == Layout(overlay.w, overlay.h)
            chosen == Trial(overlay, font_scales[overlay.chosen])
        IN  /\ overlay.chosen \in Candidates
            /\ IF \E i \in Candidates : Fits(i)
               THEN /\ ~overlay.fallback
                    /\ Fits(overlay.chosen)
                    /\ \A j \in Candidates : j < overlay.chosen => ~Fits(j)
                    /\ overlay.panel_h = chosen.h
               ELSE /\ overlay.fallback
                    /\ overlay.chosen = Len(font_scales)
                    /\ overlay.panel_h = lay.max_panel_height
            /\ overlay.panel_w = chosen.w
            /\ overlay.panel_h <= lay.max_panel_height
            /\ overlay.panel_w <= lay.panel_max_width
            /\ overlay.panel[3] - overlay.panel[1] = overlay.panel_w
            /\ overlay.panel[4] - overlay.panel[2] = overlay.panel_h

\* A message for which the two largest candidates were rejected and a
\* smaller one, not the smallest, was chosen.
C20_Witness ==
    /\ PanelDrawn
    /\ ~overlay.fallback
    /\ overlay.chosen > 2
    /\ overlay.chosen < Len(font_scales)

\* A message too long for every candidate: the fallback, clipped.
FallbackWitness ==
    /\ PanelDrawn
    /\ overlay.fallback
    /\ Trial(overlay, font_scales[Len(font_scales)]).h > overlay.panel_h

(***************************************************************************)
(* slugify and choose_message_for_locale: what a call returned.            *)
(***************************************************************************)
Slugged == helper.pc = "returned" /\ helper.fn = "slugify"

MessageChosen == helper.pc = "returned" /\ helper.fn = "choose_message_for_locale"

LowercaseAlnum == {"a", "b", "1", "i", "t", "e", "m"}

\* An alphanumeric character of the input, in either case.
Alphanumeric == {"a", "b", "B", "1"}

(***************************************************************************)
(* C21, as stated: the slug is non-empty, made of lowercase alphanumeric   *)
(* runs separated by single hyphens, with no hyphen at either end, and is  *)
(* "item" for an input without any alphanumeric character.  (Violated: a   *)
(* run of separators gives one hyphen for each of them.)                   *)
(***************************************************************************)
C21_SlugWellFormed ==
    Slugged =>
        LET slug == helper.returned
        IN  /\ slug # <<>>
            /\ \A i \in DOMAIN slug : slug[i] \in LowercaseAlnum \cup {"-"}
            /\ slug[1] # "-"
            /\ slug[Len(slug)] # "-"
            /\ \A i \in 1..(Len(slug) - 1) : ~(slug[i] = "-" /\ slug[i + 1] = "-")
            /\ (\A i \in DOMAIN helper.text : helper.text[i] \notin Alphanumeric)
                  => slug = Item

\* The part of a locale before its first underscore.
PrimarySubtag(locale) ==
    IF \E i \in DOMAIN locale : locale[i] = "_"
    THEN LET first == CHOOSE i \in DOMAIN locale :
                         /\ locale[i] = "_"
                         /\ \A j \in 1..(i - 1) : locale[j] # "_"
         IN  SubSeq(locale, 1, first - 1)
    ELSE locale

(***************************************************************************)
(* C22: the message of the exact locale is returned when that locale is a  *)
(* key of message_localized; else the message of the locale's primary      *)
(* subtag when that is a key; else the product's default message.          *)
(***************************************************************************)
C22_LocaleResolutionOrder ==
    MessageChosen =>
        LET map == helper.message_localized
            sub == PrimarySubtag(helper.locale)
        IN  helper.returned =
                IF helper.locale \in DOMAIN map THEN Localized(helper.locale)
                ELSE IF sub \in DOMAIN map THEN Localized(sub)
                ELSE DefaultMessage

\* fr_CA asked for with fr and de as the only keys: the fr message.
C22_Witness ==
    /\ MessageChosen
    /\ helper.locale = <<"f", "r", "_", "C", "A">>
    /\ DOMAIN helper.message_localized = {<<"f", "r">>, <<"d", "e">>}
    /\ helper.returned = Localized(<<"f", "r">>)

(***************************************************************************)
(* C23: whenever the loop returns, at the early exit or with the budget    *)
(* used up, the returned review's quality_score is the highest of the      *)
(* compliant reviews of the run, and the returned pair is the stored       *)
(* best_compliant pair.                                                    *)
(***************************************************************************)
C23_ReturnsMaximumScore ==
    pc = "returned" =>
        /\ \A i \in CompliantIterations :
              ReviewResult(i).quality_score <= result[1].review.quality_score
        /\ \E i \in CompliantIterations :
              ReviewResult(i).quality_score = result[1].review.quality_score
        /\ best_review = Some(result[1].review)
        /\ best_compliant_image = Some(result[1].image)

\* An early exit at the third iteration, the two before it compliant with
\* lower scores.
C23_Witness ==
    /\ pc = "returned"
    /\ Len(review_calls) = 3
    /\ Qualifies(3)
    /\ CompliantAt(1)
    /\ CompliantAt(2)
    /\ ReviewResult(1).quality_score < ReviewResult(2).quality_score
    /\ result[1].image = gen_calls[3].image[1]

\* The image and the review are those of one iteration: the review call i
\* was given that image and returned that review.
SameIteration(image, review) ==
    \E i \in DOMAIN review_calls :
        /\ ReviewReturned(i)
        /\ review_calls[i].image = image
        /\ gen_calls[i].image = Some(image)
        /\ ReviewResult(i) = review

(***************************************************************************)
(* C24: in every state best_compliant_image and best_review are both       *)
(* absent or are the image and the review of one iteration, and the pair   *)
(* the loop returns is an image with the review made of that image.        *)
(***************************************************************************)
C24_ImageAndReviewPaired ==
    /\ \/ best_compliant_image = None /\ best_review = None
       \/ /\ best_compliant_image # None
          /\ best_review # None
          /\ SameIteration(best_compliant_image[1], best_review[1])
    /\ pc = "returned" => SameIteration(result[1].image, result[1].review)

\* The budget ran out after the stored best had been replaced: the second
\* iteration's pair was returned, not the first's nor the third's.
C24_Witness ==
    /\ pc = "returned"
    /\ Len(review_calls) = 3
    /\ CompliantAt(1)
    /\ CompliantAt(2)
    /\ ReviewResult(1).quality_score < ReviewResult(2).quality_score
    /\ result[1] = PairOf(2)

\* The call of iteration k to a capability raised.
GenerationFailedAt(k) == k \in DOMAIN gen_calls /\ gen_calls[k].image = None

ReviewFailedAt(k) == k \in DOMAIN review_calls /\ ~ReviewReturned(k)

(***************************************************************************)
(* C25: when the generation or the review call of iteration k raises (an   *)
(* empty review response included), the loop ends at once with that        *)
(* error: no later call is made, nothing is returned, not even the         *)
(* best_compliant pair of an earlier iteration, and the unit gets no file. *)
(***************************************************************************)
C25_FailureDiscardsProgress ==
    \A k \in 1..ProcessorMaxIterations :
        (GenerationFailedAt(k) \/ ReviewFailedAt(k)) =>
            /\ Len(gen_calls) = k
            /\ Len(review_calls) = IF GenerationFailedAt(k) THEN k - 1 ELSE k
            /\ pc \in {"raised", "aborted"}
            /\ error # None
            /\ error[1].type = IF GenerationFailedAt(k) THEN "GenerationError"
                               ELSE review_calls[k].outcome.exc
            /\ result = None
            /\ files[Unit] = None
            /\ \A i \in DOMAIN returns : returns[i].unit # Unit

\* The review of the third iteration came back empty after two compliant
\* reviews; the run ended and the unit has no file.
C25_Witness ==
    /\ pc = "aborted"
    /\ Len(review_calls) = 3
    /\ review_calls[3].response = NoTextResponse
    /\ CompliantAt(1)
    /\ CompliantAt(2)
    /\ best_compliant_image # None
    /\ files[Unit] = None

\* Unit u comes before unit v: products in the order of the brief, and
\* for one product the aspect ratios in the order of ASPECT_SPECS.
Before(u, v) == u[1] < v[1] \/ (u[1] = v[1] /\ u[2] < v[2])

\* The files written are those of the units before the one at hand, or of
\* the products before the one at hand between two products.
WrittenInOrder ==
    /\ [i \in 1..Len(ASPECT_SPECS) |-> ASPECT_SPECS[i].key] = <<"1x1", "9x16", "16x9">>
    /\ IF pc \in {"main", "done"}
       THEN \A u \in Units : files[u] # None <=> u[1] < product_idx
       ELSE \A u \in Units : files[u] # None <=> Before(u, Unit)

\* A step never leaves a failed run and never removes or replaces a file.
NoStepAfterFailure ==
    /\ pc # "aborted"
    /\ \A u \in Units : files[u] # None => files'[u] = files[u]

(***************************************************************************)
(* C26: the units run one after the other, products in brief order and     *)
(* aspect ratios in the order 1x1, 9x16, 16x9; a unit starts only when the *)
(* file of every unit before it is written; once a unit has failed no      *)
(* later unit is started, and the files written before it remain.          *)
(***************************************************************************)
C26_SequentialNoIsolation == []WrittenInOrder /\ [][NoStepAfterFailure]_vars

\* The second unit of the second product failed: the four files before it
\* are written, its own and the last unit's are not.
C26_Witness ==
    /\ pc = "aborted"
    /\ Unit = <<2, 2>>
    /\ \A u \in Units : Before(u, Unit) => files[u] # None
    /\ files[<<2, 2>>] = None
    /\ files[<<2, 3>>] = None

=============================================================================
